---- MODULE Spec2Model ----
(***************************************************************************)
(* Bayesian bandit with action sampling (BayesianBanditSampling and its    *)
(* Monte Carlo subclass), driven by the realization loop of                *)
(* execute_bandits.                                                        *)
(*                                                                         *)
(* Real numbers are exact rationals <<num, den>> with den >= 0; den = 0    *)
(* encodes the IEEE infinities numpy produces (1/0.0 = inf, log(0) = -inf).*)
(* Arrays are 0-based functions, array[k][t] for numpy's array[k,t].       *)
(***************************************************************************)
EXTENDS Integers, Sequences, FiniteSets, TLC

\* ---------------------------------------------------------------- bounds
\* Number of arms of the bandit (the default of the evaluation script).
K == 2
\* Longest horizon handed to execute().
MaxT == 2
\* Largest number of realizations the harness runs.
MaxR == 2

Arms == 0..(K - 1)
\* The levels a sampled reward parameter can take: level v stands for the
\* parameter v/3 in (0,1). Equal levels in one draw are ties.
Vals == 1..2

\* ------------------------------------------------------------- rationals
Inf == <<1, 0>>
NegInf == <<-1, 0>>
Rat(n) == <<n, 1>>

RLe(a, b) == a[1] * b[2] <= b[1] * a[2]
RLt(a, b) == a[1] * b[2] < b[1] * a[2]

\* np.maximum / np.minimum
RMax(a, b) == IF RLe(a, b) THEN b ELSE a
RMin(a, b) == IF RLe(a, b) THEN a ELSE b

\* 1/x on a numpy float64 x >= 0: division by zero yields inf (a warning, no
\* exception).
RInv(a) == IF a[1] = 0 THEN Inf ELSE <<a[2], a[1]>>

\* 1 - x
ROneMinus(a) == <<a[2] - a[1], a[2]>>

\* int(x) for a finite x >= 0: truncation toward zero.
Trunc(a) == a[1] \div a[2]

\* numpy's argmax: the lowest index holding the maximum.
ArgMax(f) ==
    CHOOSE k \in DOMAIN f :
        /\ \A j \in DOMAIN f : f[j] <= f[k]
        /\ \A j \in DOMAIN f : j < k => f[j] < f[k]

ArgMaxR(f) ==
    CHOOSE k \in DOMAIN f :
        /\ \A j \in DOMAIN f : RLe(f[j], f[k])
        /\ \A j \in DOMAIN f : j < k => RLt(f[j], f[k])

\* array[:, t]
Col(a, tt) == [k \in Arms |-> a[k][tt]]

\* array[k, :n].sum()
RECURSIVE SumTo(_, _)
SumTo(row, n) == IF n = 0 THEN 0 ELSE row[n - 1] + SumTo(row, n - 1)

Zeros(T) == [k \in Arms |-> [u \in 0..(T - 1) |-> 0]]
RZeros(T) == [k \in Arms |-> [u \in 0..(T - 1) |-> Rat(0)]]
Ones(T) == [u \in 0..(T - 1) |-> Rat(1)]

\* Attributes that execute() creates do not exist before its first call.
Unset == <<>>

VARIABLES
    M,                          \* self.M
    reward_function,            \* self.reward_function
    reward_prior,               \* self.reward_prior
    reward_posterior,           \* self.reward_posterior
    sampling,                   \* self.sampling
    actions_predictive_density, \* self.actions_predictive_density
    actions,                    \* self.actions
    returns,                    \* self.returns
    returns_expected,           \* self.returns_expected
    n_samples,                  \* self.n_samples
    posterior_hyperparams,      \* local of compute_action_predictive_density
    tally,                      \* the multinomial votes summed per arm
    action,                     \* local of execute
    t,                          \* loop variable of execute
    t_max,                      \* argument of execute
    R,                          \* argument of execute_bandits
    r,                          \* loop variable of execute_bandits
    pc,                         \* position in execute_bandits / execute
    err                         \* the exception that ended the run, if any

vars == <<M, reward_function, reward_prior, reward_posterior, sampling,
          actions_predictive_density, actions, returns, returns_expected,
          n_samples, posterior_hyperparams, tally, action, t, t_max, R, r,
          pc, err>>

config == <<M, reward_function, reward_prior, sampling, t_max, R>>

\* ------------------------------------------------- configurations (Init)
\* static budgets: 1 (Thompson sampling), values that are not integers, and
\* values below 1.
StaticBudgets == {Rat(0), Rat(1), Rat(2), <<1, 2>>, <<3, 2>>}

NoKnobs == [n_samples |-> Rat(1), n_0 |-> 0, n |-> 0, n_max |-> Rat(1)]

SamplingConfigs ==
    {[NoKnobs EXCEPT !.n_samples = v] @@ [type |-> "static"] : v \in StaticBudgets}
    \cup {[NoKnobs EXCEPT !.n_0 = a, !.n = b] @@ [type |-> "linear"] :
              a \in 0..1, b \in 0..1}
    \cup {[NoKnobs EXCEPT !.n_max = Rat(c)] @@ [type |-> ty] :
              c \in {1, 3, 5}, ty \in {"invVar", "invPFA"}}
    \cup {NoKnobs @@ [type |-> ty] : ty \in {"logT", "sqrtT", "argMax", "random"}}

SupportedTypes ==
    {"static", "linear", "logT", "sqrtT", "invVar", "invPFA", "argMax"}

\* reward_posterior as built by __init__: every key of the prior other than
\* 'name' gets a list holding the prior's value.
InitPosterior(prior) ==
    [dist |-> <<prior.dist>>, alpha |-> <<prior.alpha>>, beta |-> <<prior.beta>>]

InitWith(cfgs, draws, rewards, priors, hyper, horizons, reals) ==
    /\ sampling \in cfgs
    /\ M \in draws
    /\ reward_function \in [dist : rewards]
    /\ reward_prior \in [dist : priors, alpha : hyper, beta : hyper]
    /\ reward_posterior = InitPosterior(reward_prior)
    /\ t_max \in horizons
    /\ R \in reals
    /\ r = 0
    /\ t = 0
    /\ pc = "call"
    /\ err = "none"
    /\ actions_predictive_density = Unset
    /\ actions = Unset
    /\ returns = Unset
    /\ returns_expected = Unset
    /\ n_samples = Unset
    /\ posterior_hyperparams = Unset
    /\ tally = Unset
    /\ action = 0

UniformPrior == [k \in Arms |-> 1]
SkewedPrior == [k \in Arms |-> k + 1]

Thompson == {c \in SamplingConfigs : c.type = "static" /\ c.n_samples = Rat(1)}

Init ==
    \* every sampling strategy, one realization of two steps
    \/ InitWith({c \in SamplingConfigs : c.n_max # Rat(5)}, {2},
                {"bernoulli"}, {"beta"}, {UniformPrior}, {2}, {1})
    \* the inverse strategies with every cap, and with an odd number of
    \* Monte Carlo draws, for one step
    \/ InitWith({c \in SamplingConfigs : c.type \in {"invVar", "invPFA"}},
                {2, 3}, {"bernoulli"}, {"beta"}, {UniformPrior}, {1}, {1})
    \* Thompson sampling with every pairing of reward function and prior, two
    \* realizations of two steps
    \/ InitWith(Thompson, {2}, {"bernoulli", "poisson"}, {"beta", "gamma"},
                {SkewedPrior}, {2}, {2})
    \* Thompson sampling over the most realizations, of one step each
    \/ InitWith(Thompson, {2}, {"bernoulli"}, {"beta"}, {SkewedPrior}, {1},
                {MaxR})
    \* Thompson sampling and the time-driven strategies over the longest
    \* horizon
    \/ InitWith({c \in SamplingConfigs :
                    c.type \in {"logT", "sqrtT"} \/ c \in Thompson},
                {2}, {"bernoulli"}, {"beta"}, {UniformPrior}, {MaxT}, {1})
    \* the time-driven strategies with a single Monte Carlo draw, over four
    \* steps: ln(t) and sqrt(t) exceed 1 from t = 3 and t = 2 on
    \/ InitWith({c \in SamplingConfigs : c.type \in {"linear", "logT", "sqrtT"}},
                {1}, {"bernoulli"}, {"beta"}, {UniformPrior}, {4}, {1})

\* ------------------------------------------------------------- execute()
\* execute_bandits calls execute(t_max) of the bandit for realization r;
\* execute allocates its arrays and enters the loop over t.
Execute ==
    /\ pc = "call"
    /\ actions_predictive_density' = [mean |-> RZeros(t_max), var |-> RZeros(t_max)]
    /\ actions' = Zeros(t_max)
    /\ returns' = Zeros(t_max)
    /\ returns_expected' = RZeros(t_max)
    /\ n_samples' = Ones(t_max)
    /\ t' = 0
    /\ pc' = IF t_max > 0 THEN "density" ELSE "returned"
    /\ UNCHANGED <<config, reward_posterior, posterior_hyperparams, tally,
                   action, r, err>>

\* ---------------------------------- compute_action_predictive_density(t)
\* The K x M matrices rvs(size=(K,M)) can return.
SampleMatrices == [Arms -> [1..M -> Vals]]

\* returns_expected_samples.argmax(axis=0)[m]
Winner(S, m) == ArgMax([k \in Arms |-> S[k][m]])

\* Every arm that reaches the maximum of a draw is counted for that draw.
WinsWithTies(S, k) ==
    Cardinality({m \in 1..M : \A j \in Arms : S[j][m] <= S[k][m]})

\* Number of draws in which arm k holds the maximum.
Wins(S, k) == Cardinality({m \in 1..M : Winner(S, m) = k})

\* returns_expected_samples.mean(axis=1)[k]
RowMean(S, k) ==
    <<SumTo([m \in 0..(M - 1) |-> S[k][m + 1]], M), M * (Cardinality(Vals) + 1)>>

\* (argmax == arange(K)).astype(int).mean(axis=1)[k]
PredictiveMean(S, k) == <<Wins(S, k), M>>

\* (argmax == arange(K)).astype(int).var(axis=1)[k]: the population variance
\* of a 0/1 indicator with Wins ones among M.
PredictiveVar(S, k) == <<Wins(S, k) * (M - Wins(S, k)), M * M>>

Last(q) == q[Len(q)]

ComputeDensity ==
    /\ pc = "density"
    /\ IF reward_prior.dist = "beta"
       THEN /\ posterior_hyperparams' =
                   <<Last(reward_posterior.alpha), Last(reward_posterior.beta)>>
            /\ \E S \in SampleMatrices :
                   /\ returns_expected' =
                          [k \in Arms |->
                              [returns_expected[k] EXCEPT ![t] = RowMean(S, k)]]
                   /\ actions_predictive_density' =
                          [mean |-> [k \in Arms |->
                                       [actions_predictive_density.mean[k]
                                           EXCEPT ![t] = PredictiveMean(S, k)]],
                           var |-> [k \in Arms |->
                                       [actions_predictive_density.var[k]
                                           EXCEPT ![t] = PredictiveVar(S, k)]]]
            /\ pc' = "budget"
            /\ err' = err
       ELSE /\ pc' = "error"
            /\ err' = "ValueError"
            /\ UNCHANGED <<posterior_hyperparams, returns_expected,
                           actions_predictive_density>>
    /\ UNCHANGED <<config, reward_posterior, actions, returns, n_samples,
                   tally, action, t, r>>

\* ------------------------------------------------- number of samples at t
\* floor(1000 * ln(u)) for u = 1..8.
LnMilli == <<0, 693, 1098, 1386, 1609, 1791, 1945, 2079>>

\* np.log(t): -inf at t = 0 (a warning, no exception).
Log(u) == IF u = 0 THEN NegInf ELSE <<LnMilli[u], 1000>>

\* np.sqrt(t), to two decimals.
Sqrt(u) ==
    <<CHOOSE s \in 0..(100 * u + 1) :
          s * s <= 10000 * u /\ 10000 * u < (s + 1) * (s + 1), 100>>

SamplesStatic(smp) == smp.n_samples

\* The linear number of samples without the floor.
SamplesLinearNoFloor(smp, u) == Rat(smp.n_0 + smp.n * u)

SamplesLinear(smp, u) == RMax(Rat(smp.n_0 + smp.n * u), Rat(1))

SamplesLogT(u) == RMax(Log(u), Rat(1))

SamplesSqrtT(u) == RMax(Sqrt(u), Rat(1))

\* The inverse variance without the cap.
SamplesInvVarNoCap(smp, density, u) ==
    RMax(RInv(density.var[ArgMaxR(Col(density.mean, u))][u]), Rat(1))

\* 1/var of the arm with the largest predictive mean, floored and capped.
SamplesInvVar(smp, density, u) ==
    RMin(RMax(RInv(density.var[ArgMaxR(Col(density.mean, u))][u]), Rat(1)),
         smp.n_max)

\* 1/(1 - mean) of the arm with the largest predictive mean, floored and
\* capped.
SamplesInvPFA(smp, density, u) ==
    RMin(RMax(RInv(ROneMinus(density.mean[ArgMaxR(Col(density.mean, u))][u])),
              Rat(1)),
         smp.n_max)

SamplesArgMax == Inf

ComputeBudget ==
    /\ pc = "budget"
    /\ IF sampling.type \in SupportedTypes
       THEN /\ n_samples' =
                   [n_samples EXCEPT ![t] =
                       CASE sampling.type = "static" -> SamplesStatic(sampling)
                         [] sampling.type = "linear" -> SamplesLinear(sampling, t)
                         [] sampling.type = "logT" -> SamplesLogT(t)
                         [] sampling.type = "sqrtT" -> SamplesSqrtT(t)
                         [] sampling.type = "invVar" ->
                               SamplesInvVar(sampling, actions_predictive_density, t)
                         [] sampling.type = "invPFA" ->
                               SamplesInvPFA(sampling, actions_predictive_density, t)
                         [] sampling.type = "argMax" -> SamplesArgMax]
            /\ pc' = "pick"
            /\ err' = err
       ELSE /\ n_samples' = n_samples
            /\ pc' = "error"
            /\ err' = "ValueError"
    /\ UNCHANGED <<config, reward_posterior, actions_predictive_density,
                   actions, returns, returns_expected, posterior_hyperparams,
                   tally, action, t, r>>

\* ------------------------------------------------------- pick next action
\* Arms a multinomial draw with these probabilities can return.
Support(p) == {k \in Arms : p[k][1] > 0}

\* The tallies multinomial(1, p, size=n).sum(axis=0) can return.
Tallies(p, n) ==
    {[k \in Arms |-> Cardinality({i \in 1..n : v[i] = k})] :
        v \in [1..n -> Support(p)]}

\* The number of samples rounded up.
NVotesRoundedUp(n) == (n[1] + n[2] - 1) \div n[2]

\* The number of votes drawn for a finite budget: int(n_samples[t]).
NVotes(n) == Trunc(n)

\* The highest index among the arms with the most votes.
ElectedLast(tl) ==
    CHOOSE k \in DOMAIN tl :
        /\ \A j \in DOMAIN tl : tl[j] <= tl[k]
        /\ \A j \in DOMAIN tl : j > k => tl[j] < tl[k]

\* The arm the tally elects: tally.argmax().
Elected(tl) == ArgMax(tl)

\* The chosen arm is marked from t onward: actions[a, t:] = 1.
MarkActionFrom(acts, a, u) ==
    [k \in Arms |->
        [v \in DOMAIN acts[k] |-> IF k = a /\ v >= u THEN 1 ELSE acts[k][v]]]

\* actions[a, t] = 1
MarkAction(acts, a, u) == [acts EXCEPT ![a][u] = 1]

\* The first arm marked in any column up to t:
\* np.where(actions[:,:t+1]==1)[0][0]
FirstMarkedUpTo(acts, u) ==
    CHOOSE k \in Arms :
        /\ \E v \in 0..u : acts[k][v] = 1
        /\ \A j \in Arms : j < k => \A v \in 0..u : acts[j][v] # 1

\* np.where(actions[:,t]==1)[0][0]
FirstMarked(acts, u) ==
    CHOOSE k \in Arms :
        acts[k][u] = 1 /\ \A j \in Arms : j < k => acts[j][u] # 1

PickAction ==
    /\ pc = "pick"
    /\ IF n_samples[t] = Inf
       THEN \* actions_predictive_density is a dictionary: indexing it with
            \* [:,t] raises before anything is written.
            /\ pc' = "error"
            /\ err' = "TypeError"
            /\ UNCHANGED <<actions, tally, action>>
       ELSE /\ \E tl \in Tallies(Col(actions_predictive_density.mean, t),
                                NVotes(n_samples[t])) :
                   /\ tally' = tl
                   /\ actions' = MarkAction(actions, Elected(tl), t)
            /\ action' = FirstMarked(actions', t)
            /\ pc' = "return"
            /\ err' = err
    /\ UNCHANGED <<config, reward_posterior, actions_predictive_density,
                   returns, returns_expected, n_samples, posterior_hyperparams,
                   t, r>>

\* ------------------------------------------------- return of the true arm
\* Values rvs() of the true reward function can return for one arm.
RewardVals(dist) == IF dist = "bernoulli" THEN {0, 1} ELSE 0..2

ComputeReturn ==
    /\ pc = "return"
    /\ \E y \in RewardVals(reward_function.dist) :
           returns' = [returns EXCEPT ![action][t] = y]
    /\ pc' = "update"
    /\ UNCHANGED <<config, reward_posterior, actions_predictive_density,
                   actions, returns_expected, n_samples, posterior_hyperparams,
                   tally, action, t, r, err>>

\* ---------------------------------------------- update_reward_posterior(t)
\* The successes up to t excluded: returns[:,:t].sum(axis=1).
S_tExcluded(rets, u) == [k \in Arms |-> SumTo(rets[k], u)]

\* returns[:,:t+1].sum(axis=1)
S_t(rets, u) == [k \in Arms |-> SumTo(rets[k], u + 1)]

\* actions[:,:t+1].sum(axis=1)
N_t(acts, u) == [k \in Arms |-> SumTo(acts[k], u + 1)]

\* The successes added to the latest snapshot instead of the prior:
\* reward_posterior['alpha'][-1] + s_t.
PosteriorAlphaOnLatest(prior, s) ==
    [k \in Arms |-> reward_posterior.alpha[Len(reward_posterior.alpha)][k] + s[k]]

\* reward_prior['alpha'] + s_t
PosteriorAlpha(prior, s) == [k \in Arms |-> prior.alpha[k] + s[k]]

\* The failures with the wrong sign: reward_prior['beta'] + (s_t - n_t).
PosteriorBetaSwapped(prior, n, s) ==
    [k \in Arms |-> prior.beta[k] + (s[k] - n[k])]

\* reward_prior['beta'] + (n_t - s_t)
PosteriorBeta(prior, n, s) == [k \in Arms |-> prior.beta[k] + (n[k] - s[k])]

UpdatePosterior ==
    /\ pc = "update"
    /\ IF reward_function.dist = "bernoulli" /\ reward_prior.dist = "beta"
       THEN /\ reward_posterior' =
                   [reward_posterior EXCEPT
                       !.alpha = Append(@, PosteriorAlpha(reward_prior,
                                                          S_t(returns, t))),
                       !.beta = Append(@, PosteriorBeta(reward_prior,
                                                        N_t(actions, t),
                                                        S_t(returns, t)))]
            /\ t' = t + 1
            /\ pc' = IF t + 1 < t_max THEN "density" ELSE "returned"
            /\ err' = err
       ELSE /\ pc' = "error"
            /\ err' = "ValueError"
            /\ UNCHANGED <<reward_posterior, t>>
    /\ UNCHANGED <<config, actions_predictive_density, actions, returns,
                   returns_expected, n_samples, posterior_hyperparams, tally,
                   action, r>>

\* ------------------------------------------------------ execute_bandits()
\* execute returned: the harness moves on to the next realization, or ends.
NextRealization ==
    /\ pc = "returned"
    /\ r' = r + 1
    /\ pc' = IF r + 1 < R THEN "call" ELSE "finished"
    /\ UNCHANGED <<config, reward_posterior, actions_predictive_density,
                   actions, returns, returns_expected, n_samples,
                   posterior_hyperparams, tally, action, t, err>>

Next ==
    \/ Execute
    \/ ComputeDensity
    \/ ComputeBudget
    \/ PickAction
    \/ ComputeReturn
    \/ UpdatePosterior
    \/ NextRealization

Spec == Init /\ [][Next]_vars

\* ================================================================ claims
Times == 0..(t_max - 1)

\* The arrays of execute() exist.
Allocated == actions # Unset

\* The realization whose arrays the object holds.
CurrentRun == IF pc = "finished" THEN r - 1 ELSE r

\* Step u of the current realization has computed its predictive density.
DensityDone(u) ==
    /\ pc \in {"density", "budget", "pick", "return", "update", "returned"}
    /\ u < t \/ (u = t /\ pc \in {"budget", "pick", "return", "update"})

\* Step u of the current realization has computed its number of samples.
BudgetDone(u) ==
    /\ pc \in {"density", "budget", "pick", "return", "update", "returned"}
    /\ u < t \/ (u = t /\ pc \in {"pick", "return", "update"})

\* Step u of the current realization has picked its action.
ActionDone(u) ==
    /\ pc \in {"density", "budget", "pick", "return", "update", "returned"}
    /\ u < t \/ (u = t /\ pc \in {"return", "update"})

\* Step u of the current realization has appended its posterior snapshot.
UpdateDone(u) ==
    /\ pc \in {"density", "budget", "pick", "return", "update", "returned"}
    /\ u < t

\* Position, in the posterior lists, of the snapshot step u of the current
\* realization appends (position 1 holds the prior).
SnapshotAt(u) == 1 + CurrentRun * t_max + u + 1

\* C1: every column of the action record whose step has picked its action
\* holds exactly one 1 and K-1 zeros.
C1_ActionOneHot ==
    Allocated =>
        \A u \in Times :
            ActionDone(u) =>
                /\ \A k \in Arms : actions[k][u] \in {0, 1}
                /\ Cardinality({k \in Arms : actions[k][u] = 1}) = 1

\* Two steps of one run that chose different arms.
C1_Witness ==
    /\ pc = "returned"
    /\ t_max >= 2
    /\ actions[1][0] = 1
    /\ actions[0][1] = 1

\* C2: the snapshot appended by update_reward_posterior(u) holds, per arm,
\* the prior alpha plus the number of recorded successes through u, and the
\* prior beta plus the number of times the arm was chosen through u minus
\* those successes, counted in the current run.
C2_ConjugateUpdate ==
    (Allocated /\ reward_function.dist = "bernoulli") =>
        \A u \in Times :
            UpdateDone(u) =>
                /\ Len(reward_posterior.alpha) >= SnapshotAt(u)
                /\ Len(reward_posterior.beta) >= SnapshotAt(u)
                /\ \A k \in Arms :
                      LET succ == Cardinality({v \in 0..u : returns[k][v] = 1})
                          tri == Cardinality({v \in 0..u : actions[k][v] = 1})
                      IN /\ reward_posterior.alpha[SnapshotAt(u)][k] =
                               reward_prior.alpha[k] + succ
                         /\ reward_posterior.beta[SnapshotAt(u)][k] =
                               reward_prior.beta[k] + (tri - succ)

\* The second realization ended with a success and a failure recorded.
C2_Witness ==
    /\ pc = "returned"
    /\ r = 1
    /\ t_max = 2
    /\ \E k \in Arms : returns[k][1] = 1
    /\ \E k \in Arms : actions[k][0] = 1 /\ returns[k][0] = 0

\* C3: once the Monte Carlo density of step u is computed, the predictive
\* means of column u are non-negative and their win counts sum to M, so the
\* column sums to 1.
C3_MeanSumsToOne ==
    Allocated =>
        \A u \in Times :
            DensityDone(u) =>
                /\ \A k \in Arms :
                      /\ actions_predictive_density.mean[k][u][2] = M
                      /\ actions_predictive_density.mean[k][u][1] >= 0
                /\ SumTo([k \in Arms |->
                             actions_predictive_density.mean[k][u][1]], K) = M

\* A density in which both arms won draws.
C3_Witness ==
    /\ pc = "budget"
    /\ t = 1
    /\ \A k \in Arms : actions_predictive_density.mean[k][t][1] > 0

\* C4: in argMax mode the number of samples is the infinite sentinel, no
\* votes are drawn, the arm marked at t is the argmax of the predictive mean
\* of column t, and the step raises nothing.
C4_ArgMaxPicksMaximum ==
    sampling.type = "argMax" =>
        /\ err = "none"
        /\ pc # "error"
        /\ Allocated =>
              \A u \in Times :
                  /\ BudgetDone(u) => n_samples[u] = Inf
                  /\ ActionDone(u) =>
                        /\ tally = Unset
                        /\ actions[ArgMaxR(Col(actions_predictive_density.mean,
                                                u))][u] = 1

\* C5: the density of step 0 of every realization is computed from the prior
\* hyperparameters, and a realization starts with no snapshot of an earlier
\* one in the posterior lists.
C5_RealizationsIsolated ==
    /\ (pc = "density" /\ t = 0) =>
          /\ Len(reward_posterior.alpha) = 1
          /\ Len(reward_posterior.beta) = 1
    /\ (pc \in {"budget", "pick", "return", "update"} /\ t = 0) =>
          posterior_hyperparams = <<reward_prior.alpha, reward_prior.beta>>

\* C6: when a configuration error (a ValueError for the sampling type or for
\* the pairing of reward function and prior) ends the run, nothing has been
\* written: the arrays hold their initial values and the posterior lists hold
\* what they held when the run began.
C6_ConfigErrorBeforeMutation ==
    (pc = "error" /\ err = "ValueError") =>
        /\ actions_predictive_density =
              [mean |-> RZeros(t_max), var |-> RZeros(t_max)]
        /\ actions = Zeros(t_max)
        /\ returns = Zeros(t_max)
        /\ returns_expected = RZeros(t_max)
        /\ n_samples = Ones(t_max)
        /\ Len(reward_posterior.alpha) = 1 + r * t_max
        /\ Len(reward_posterior.beta) = 1 + r * t_max

\* C7: in invVar and invPFA modes every computed number of samples lies
\* between 1 and n_max (n_max >= 1), also when the inverse divides by zero.
C7_InverseBudgetClamped ==
    (Allocated /\ sampling.type \in {"invVar", "invPFA"}) =>
        \A u \in Times :
            BudgetDone(u) =>
                /\ n_samples[u][2] > 0
                /\ n_samples[u][1] >= n_samples[u][2]
                /\ n_samples[u][1] * sampling.n_max[2] <=
                      sampling.n_max[1] * n_samples[u][2]

\* The variance of the most probable arm is 0 and the cap decided.
C7_Witness ==
    /\ pc = "pick"
    /\ sampling.type = "invVar"
    /\ sampling.n_max = Rat(3)
    /\ \E k \in Arms :
          /\ actions_predictive_density.mean[k][t][1] = M
          /\ actions_predictive_density.var[k][t][1] = 0
    /\ n_samples[t] = Rat(3)

\* The votes are drawn in proportion to the predictive mean, and the arm
\* with the most votes, the lowest index on ties, is marked.
VotesElect(u) ==
    /\ \A k \in Arms :
          tally[k] > 0 => actions_predictive_density.mean[k][u][1] > 0
    /\ \A j \in Arms : tally[j] <= tally[action]
    /\ \A j \in Arms : j < action => tally[j] < tally[action]
    /\ actions[action][u] = 1

\* The smallest integer >= x, for a finite x >= 0.
Ceil(a) == (a[1] + a[2] - 1) \div a[2]

\* C8 as stated: a finite number of samples draws ceil(n_samples[t]) votes.
C8_CeilVotes ==
    (pc = "return" /\ n_samples[t][2] > 0) =>
        /\ SumTo(tally, K) = Ceil(n_samples[t])
        /\ VotesElect(t)

\* C8 (amended): a finite number of samples draws int(n_samples[t]) votes,
\* the number of samples truncated toward zero (1.5 draws 1 vote), with the
\* predictive mean of column t as probabilities, and the arm with the most
\* votes is chosen, the lowest index winning ties.
C8_TruncatedVotes ==
    (pc = "return" /\ n_samples[t][2] > 0) =>
        /\ SumTo(tally, K) = Trunc(n_samples[t])
        /\ VotesElect(t)

\* Two votes that tie, and a budget of 1.5 that drew a single vote.
C8_Witness ==
    /\ pc = "return"
    /\ \/ n_samples[t] = Rat(2) /\ tally = [k \in Arms |-> 1] /\ action = 0
       \/ n_samples[t] = <<3, 2>> /\ SumTo(tally, K) = 1

\* The configuration is one the class supports.
ValidConfig ==
    /\ sampling.type \in SupportedTypes
    /\ reward_function.dist = "bernoulli"
    /\ reward_prior.dist = "beta"

\* C9: execute visits t = 0..t_max-1 in increasing order, and performs in
\* each t, once and in this order, the density, the number of samples, the
\* action, the return and the posterior update; it returns after t_max steps.
C9_StepOrder ==
    [][ValidConfig =>
          /\ pc = "call" => pc' = "density" /\ t' = 0
          /\ pc = "density" => pc' = "budget" /\ t' = t
          /\ pc = "budget" => pc' = "pick" /\ t' = t
          /\ pc = "pick" => pc' = "return" /\ t' = t
          /\ pc = "return" => pc' = "update" /\ t' = t
          /\ pc = "update" =>
                /\ t' = t + 1
                /\ pc' = IF t' < t_max THEN "density" ELSE "returned"
          /\ pc' = "returned" => t' = t_max]_vars

\* Two snapshots of the posterior lists were appended by the same
\* realization.
SameRun(i) == i >= 2 /\ (i - 2) \div t_max = (i - 1) \div t_max

\* C10: with Bernoulli returns, consecutive snapshots of one run never
\* decrease in alpha or in beta, and no snapshot is below the prior.
C10_PosteriorMonotone ==
    reward_function.dist = "bernoulli" =>
        /\ \A i \in 1..Len(reward_posterior.alpha), k \in Arms :
              /\ reward_posterior.alpha[i][k] >= reward_prior.alpha[k]
              /\ reward_posterior.beta[i][k] >= reward_prior.beta[k]
        /\ \A i \in 1..(Len(reward_posterior.alpha) - 1), k \in Arms :
              SameRun(i) =>
                  /\ reward_posterior.alpha[i + 1][k] >=
                        reward_posterior.alpha[i][k]
                  /\ reward_posterior.beta[i + 1][k] >=
                        reward_posterior.beta[i][k]

\* The second realization appended two snapshots, and its first one is below
\* the last one of the first realization.
C10_Witness ==
    /\ r = 1
    /\ t_max = 2
    /\ Len(reward_posterior.alpha) = 5
    /\ \E k \in Arms :
          reward_posterior.alpha[4][k] < reward_posterior.alpha[3][k]
    /\ \E k \in Arms :
          reward_posterior.alpha[5][k] > reward_posterior.alpha[4][k]

\* C11: in linear, logT and sqrtT modes every computed number of samples is
\* finite and at least 1; at t = 0 the logT and sqrtT numbers are exactly 1,
\* and no step of these modes raises.
C11_TimeBudgetFloored ==
    sampling.type \in {"linear", "logT", "sqrtT"} =>
        /\ err = "none"
        /\ pc # "error"
        /\ Allocated =>
              \A u \in Times :
                  BudgetDone(u) =>
                      /\ n_samples[u][2] > 0
                      /\ n_samples[u][1] >= n_samples[u][2]
                      /\ (u = 0 /\ sampling.type \in {"logT", "sqrtT"}) =>
                            n_samples[u][1] = n_samples[u][2]

\* A logT run that got past t = 0, where ln(0) = -inf was clamped to 1, and
\* reached t = 3, where ln(3) is above the floor.
C11_Witness ==
    /\ sampling.type = "logT"
    /\ pc = "returned"
    /\ t_max = 4
    /\ n_samples[0] = Rat(1)
    /\ RLt(Rat(1), n_samples[3])

\* Column u of the six time-indexed structures.
Column(dens, rexp, ns, acts, rets, u) ==
    <<Col(dens.mean, u), Col(dens.var, u), Col(rexp, u), ns[u], Col(acts, u),
      Col(rets, u)>>

\* Column u as execute() allocates it.
InitialColumn ==
    <<[k \in Arms |-> Rat(0)], [k \in Arms |-> Rat(0)], [k \in Arms |-> Rat(0)],
      Rat(1), [k \in Arms |-> 0], [k \in Arms |-> 0]>>

\* The entries of a column each position of the loop body may write.
WrittenBy(p) ==
    CASE p = "density" -> {1, 2, 3}
      [] p = "budget" -> {4}
      [] p = "pick" -> {5}
      [] p = "return" -> {6}
      [] OTHER -> {}

\* What a step of the loop body at time t may change.
FrameOfStep ==
    pc \in {"density", "budget", "pick", "return", "update"} =>
        \A u \in Times :
            LET old == Column(actions_predictive_density, returns_expected,
                              n_samples, actions, returns, u)
                new == Column(actions_predictive_density', returns_expected',
                              n_samples', actions', returns', u)
            IN /\ u # t => new = old
               /\ u > t => (old = InitialColumn /\ new = InitialColumn)
               /\ u = t =>
                     \A i \in 1..6 :
                         /\ i \notin WrittenBy(pc) => new[i] = old[i]
                         /\ i \in WrittenBy(pc) => old[i] = InitialColumn[i]

\* C12: within one run, a step of the loop body at time t leaves every
\* column other than t as it is, columns after t hold their initial values
\* before and after the step, and in column t a structure changes only in
\* the one position of the body that writes it, from its initial value.
C12_OnlyColumnT == [][FrameOfStep]_vars

\* The third step of a four-step run writes its return next to the non-zero
\* columns 0 and 1, with column 3 still to come.
C12_Witness ==
    /\ t_max = 4
    /\ t = 2
    /\ pc = "update"
    /\ \E k \in Arms : returns[k][0] = 1
    /\ \E k \in Arms : returns[k][2] = 1
    /\ RLt(Rat(1), n_samples[2])

\* C13: at every time a return is recorded only for the chosen arm: an arm
\* whose action entry is 0 has return entry 0; with Bernoulli returns the
\* cumulative successes of an arm never exceed its cumulative trials.
C13_ReturnOnlyForChosenArm ==
    Allocated =>
        \A k \in Arms, u \in Times :
            /\ actions[k][u] = 0 => returns[k][u] = 0
            /\ reward_function.dist = "bernoulli" =>
                  SumTo(returns[k], u + 1) <= SumTo(actions[k], u + 1)

\* Arm 0 was chosen at t = 0 and arm 1 at t = 1, where it returned 1.
C13_Witness ==
    /\ pc = "update"
    /\ t = 1
    /\ actions[0][0] = 1
    /\ actions[1][1] = 1
    /\ returns[1][1] = 1
    /\ returns[0][1] = 0

\* What a step may do to the posterior lists, and what the density reads.
PosteriorStep ==
    LET al == reward_posterior.alpha
        be == reward_posterior.beta
        al2 == reward_posterior'.alpha
        be2 == reward_posterior'.beta
    IN /\ Len(al) = Len(be)
       /\ Len(al2) = Len(be2)
       /\ Len(al2) =
             IF pc = "update" /\ pc' # "error" THEN Len(al) + 1 ELSE Len(al)
       /\ \A i \in 1..Len(al) : al2[i] = al[i] /\ be2[i] = be[i]
       /\ (pc = "density" /\ pc' = "budget") =>
             posterior_hyperparams' =
                 IF t = 0 THEN <<reward_prior.alpha, reward_prior.beta>>
                 ELSE <<al[Len(al)], be[Len(be)]>>

\* C14: the alpha and beta lists always have the same length, every
\* completed step appends exactly one snapshot to each, no snapshot is ever
\* modified or removed, and the density of step t reads the snapshot appended
\* by step t-1, the prior at t = 0.
C14_AppendOnlyHistory == [][PosteriorStep]_vars

\* The hyperparameters step u of the current realization starts from: the
\* prior at u = 0, the snapshot of step u - 1 afterwards.
SnapshotBefore(u) ==
    IF u = 0
    THEN [alpha |-> reward_prior.alpha, beta |-> reward_prior.beta]
    ELSE [alpha |-> reward_posterior.alpha[SnapshotAt(u - 1)],
          beta |-> reward_posterior.beta[SnapshotAt(u - 1)]]

\* C15: with Bernoulli returns and a Beta prior, the snapshot of step u
\* differs from the one before it (the prior at u = 0) in the chosen arm
\* only, by alpha + 1 when the return is 1 and by beta + 1 when it is 0; the
\* sum over the arms of alpha + beta is that of the prior plus u + 1.
C15_OneUnitPerStep ==
    (Allocated /\ reward_function.dist = "bernoulli") =>
        \A u \in Times :
            UpdateDone(u) =>
                LET al == reward_posterior.alpha[SnapshotAt(u)]
                    be == reward_posterior.beta[SnapshotAt(u)]
                    before == SnapshotBefore(u)
                IN /\ \A k \in Arms :
                         /\ al[k] = before.alpha[k] +
                               (IF actions[k][u] = 1 /\ returns[k][u] = 1
                                THEN 1 ELSE 0)
                         /\ be[k] = before.beta[k] +
                               (IF actions[k][u] = 1 /\ returns[k][u] = 0
                                THEN 1 ELSE 0)
                   /\ SumTo([k \in Arms |-> al[k] + be[k]], K) =
                         SumTo([k \in Arms |-> reward_prior.alpha[k]
                                                + reward_prior.beta[k]], K)
                         + u + 1

\* A second realization whose first step failed and whose second step
\* succeeded.
C15_Witness ==
    /\ pc = "returned"
    /\ r = 1
    /\ t_max = 2
    /\ \E k \in Arms : actions[k][0] = 1 /\ returns[k][0] = 0
    /\ \E k \in Arms : actions[k][1] = 1 /\ returns[k][1] = 1
    /\ Len(reward_posterior.alpha) = 5

\* C16: with a static number of samples v, 0 <= v < 1, no vote is drawn, the
\* tally is all zeros and arm 0 is chosen at every step whatever the
\* predictive density is; the action column is one-hot and nothing raises.
C16_ZeroVotesPickArmZero ==
    (sampling.type = "static" /\ RLt(sampling.n_samples, Rat(1))) =>
        /\ err = "none"
        /\ pc # "error"
        /\ Allocated =>
              \A u \in Times :
                  ActionDone(u) =>
                      /\ actions[0][u] = 1
                      /\ \A k \in Arms : k # 0 => actions[k][u] = 0
                      /\ (u = t /\ pc = "return") =>
                            /\ tally = [k \in Arms |-> 0]
                            /\ action = 0

\* Arm 0 is chosen with a budget of 0.5 although no Monte Carlo draw was won
\* by it.
C16_Witness ==
    /\ sampling.type = "static"
    /\ sampling.n_samples = <<1, 2>>
    /\ pc = "return"
    /\ t = 1
    /\ actions_predictive_density.mean[0][t][1] = 0
    /\ actions[0][t] = 1
====
